---- MODULE Spec2Model ----
(***************************************************************************)
(* Model of src/datastore.py: the VoodooPad document store (DataStore:     *)
(* create, open, validate, add_item) and the RTFD composite-record decoder *)
(* (read_rtf_item, read_int, extract_rtf_content_from_rtfd).               *)
(*                                                                         *)
(* Bytes are naturals 0..255, byte strings and texts are sequences (texts  *)
(* are sequences of code points).  A 32-bit unsigned integer is kept as    *)
(* two 16-bit halves [hi, lo], because 0x80000000 does not fit TLC's       *)
(* integers.                                                               *)
(***************************************************************************)
EXTENDS Integers, Sequences, FiniteSets, TLC

VARIABLES fs, ds, res, added, rtfTree, rtfData, rtfItem, rtfOut

vars == <<fs, ds, res, added, rtfTree, rtfData, rtfItem, rtfOut>>

(***************************************************************************)
(* Bounds of the model.                                                    *)
(***************************************************************************)
MaxLeaf == 1
MaxPad == 1
MaxEntries == 2
MaxPlists == 2
MaxItems == 3

(***************************************************************************)
(* Byte strings.                                                           *)
(***************************************************************************)
Min(a, b) == IF a < b THEN a ELSE b

Take(s, n) == SubSeq(s, 1, Min(n, Len(s)))

Drop(s, n) == SubSeq(s, Min(n, Len(s)) + 1, Len(s))

Rep(b, n) == [i \in 1..n |-> b]

\* b'rtfd'
RtfdMagic == <<114, 116, 102, 100>>

\* 'TXT.rtf'
TxtRtf == <<84, 88, 84, 46, 114, 116, 102>>

(***************************************************************************)
(* UTF-8.  One- and two-byte forms are modelled; lead bytes 0xE0..0xF4 do  *)
(* not occur in the inputs of this model.                                  *)
(***************************************************************************)
RECURSIVE Utf8Encode(_)
Utf8Encode(text) ==
    IF text = <<>> THEN <<>>
    ELSE LET c == Head(text) IN
         (IF c < 128 THEN <<c>> ELSE <<192 + (c \div 64), 128 + (c % 64)>>)
            \o Utf8Encode(Tail(text))

\* a decoded code point put in front of the decoding of the rest
DecodedCons(c, r) == [ok |-> r.ok, text |-> IF r.ok THEN <<c>> \o r.text ELSE <<>>]

\* bytes.decode('utf-8'): [ok, text]; ok = FALSE stands for UnicodeDecodeError
RECURSIVE Utf8Decode(_)
Utf8Decode(bytes) ==
    IF bytes = <<>> THEN [ok |-> TRUE, text |-> <<>>]
    ELSE LET b == Head(bytes) IN
         IF b < 128
         THEN DecodedCons(b, Utf8Decode(Tail(bytes)))
         ELSE IF b >= 194 /\ b <= 223 /\ Len(bytes) >= 2
                 /\ bytes[2] >= 128 /\ bytes[2] <= 191
         THEN DecodedCons((b - 192) * 64 + (bytes[2] - 128), Utf8Decode(Drop(bytes, 2)))
         ELSE [ok |-> FALSE, text |-> <<>>]

(***************************************************************************)
(* The composite-record decoder.                                           *)
(***************************************************************************)
U32(n) == [hi |-> 0, lo |-> n]

\* 2147483648, 00 00 00 80 on the wire
BigFileMarker == [hi |-> 32768, lo |-> 0]

\* int.from_bytes(four_bytes, byteorder='little'); fewer than four bytes are
\* accepted and the missing high bytes count as zero
read_int(four_bytes) ==
    LET B(i) == IF i <= Len(four_bytes) THEN four_bytes[i] ELSE 0
    IN [hi |-> B(3) + 256 * B(4), lo |-> B(1) + 256 * B(2)]

\* the number a decoded integer stands for (exact below 2^31)
Count(v) == v.hi * 65536 + v.lo

\* data.read(n) on a stream holding `data`: the bytes returned, the stream
\* afterwards, and whether the read asked for more than was left.  A stream
\* read never raises: it returns what is there.
Read(data, n) ==
    [bytes |-> Take(data, n), rest |-> Drop(data, n), short |-> n > Len(data)]

\* data.read(v) for a decoded 32-bit v; streams are shorter than 65536 bytes
ReadN(data, v) == Read(data, IF v.hi > 0 THEN Len(data) + 1 ELSE v.lo)

NoneVal == [kind |-> "none", bytes |-> <<>>, names |-> <<>>, vals |-> <<>>,
            short |-> FALSE]

BytesVal(b, s) == [kind |-> "bytes", bytes |-> b, names |-> <<>>, vals |-> <<>>,
                   short |-> s]

DictVal(n, v, s) == [kind |-> "dict", bytes |-> <<>>, names |-> n, vals |-> v,
                     short |-> s]

\* UnicodeDecodeError escaping from the decoder
RaiseVal == [kind |-> "raise", bytes |-> <<>>, names |-> <<>>, vals |-> <<>>,
             short |-> FALSE]

\* first loop of the directory branch: n length-prefixed names
RECURSIVE ReadNames(_, _)
ReadNames(data, n) ==
    IF n = 0 THEN [names |-> <<>>, rest |-> data, short |-> FALSE, ok |-> TRUE]
    ELSE LET r1 == Read(data, 4)
             attr_len == read_int(r1.bytes)
             r2 == ReadN(r1.rest, attr_len)
             attr_name == Utf8Decode(r2.bytes)
         IN IF ~attr_name.ok
            THEN [names |-> <<>>, rest |-> r2.rest, short |-> FALSE, ok |-> FALSE]
            ELSE LET more == ReadNames(r2.rest, n - 1) IN
                 [names |-> <<attr_name.text>> \o more.names,
                  rest |-> more.rest,
                  short |-> r1.short \/ r2.short \/ more.short,
                  ok |-> more.ok]

\* item_sizes = [read_int(data.read(4)) for _ in range(n_items)]
RECURSIVE ReadSizes(_, _)
ReadSizes(data, n) ==
    IF n = 0 THEN [sizes |-> <<>>, rest |-> data, short |-> FALSE]
    ELSE LET r == Read(data, 4)
             more == ReadSizes(r.rest, n - 1)
         IN [sizes |-> <<read_int(r.bytes)>> \o more.sizes,
             rest |-> more.rest,
             short |-> r.short \/ more.short]

\* item_data = [data.read(size) for size in item_sizes]
RECURSIVE ReadData(_, _)
ReadData(data, sizes) ==
    IF sizes = <<>> THEN [items |-> <<>>, rest |-> data, short |-> FALSE]
    ELSE LET r == ReadN(data, Head(sizes))
             more == ReadData(r.rest, Tail(sizes))
         IN [items |-> <<r.bytes>> \o more.items,
             rest |-> more.rest,
             short |-> r.short \/ more.short]

\* keys of a dict in insertion order: the first occurrence of each name
RECURSIVE DictKeys(_)
DictKeys(names) ==
    IF names = <<>> THEN <<>>
    ELSE LET front == DictKeys(SubSeq(names, 1, Len(names) - 1))
             last == names[Len(names)]
         IN IF \E i \in 1..Len(front) : front[i] = last THEN front
            ELSE Append(front, last)

\* value bound to a key after all assignments: the last one wins
DictLast(names, subs, key) ==
    subs[CHOOSE i \in 1..Len(names) :
            /\ names[i] = key
            /\ \A j \in (i + 1)..Len(names) : names[j] # key]

\* the leaf branch with the padding read but not skipped
ReadLeafNoSkip(data) ==
    LET s == Read(data, 4)
        item_size == read_int(s.bytes)
    IN IF item_size = BigFileMarker
       THEN LET p == Read(s.rest, 4)
                q == Read(p.rest, 4)
                real_size == read_int(q.bytes)
                body == ReadN(q.rest, real_size)
            IN BytesVal(body.bytes, s.short \/ p.short \/ q.short \/ body.short)
       ELSE LET body == ReadN(s.rest, item_size)
            IN BytesVal(body.bytes, s.short \/ body.short)

\* the branch item_type == 1, on the stream after the tag
ReadLeaf(data) ==
    LET s == Read(data, 4)
        item_size == read_int(s.bytes)
    IN IF item_size = BigFileMarker
       THEN LET p == Read(s.rest, 4)
                padding_size == read_int(p.bytes)
                q == Read(p.rest, 4)
                real_size == read_int(q.bytes)
                skip == ReadN(q.rest, padding_size)
                body == ReadN(skip.rest, real_size)
            IN BytesVal(body.bytes,
                        s.short \/ p.short \/ q.short \/ skip.short \/ body.short)
       ELSE LET body == ReadN(s.rest, item_size)
            IN BytesVal(body.bytes, s.short \/ body.short)

RECURSIVE read_rtf_item(_)
read_rtf_item(data) ==
    LET t == Read(data, 4)
        item_type == read_int(t.bytes)
    IN
    IF item_type = U32(1) THEN
        LET leaf == ReadLeaf(t.rest)
        IN [leaf EXCEPT !.short = t.short \/ leaf.short]
    ELSE IF item_type = U32(3) THEN
        LET c == Read(t.rest, 4)
            n_items == Count(read_int(c.bytes))
            nm == ReadNames(c.rest, n_items)
        IN IF ~nm.ok THEN RaiseVal
           ELSE
           LET sz == ReadSizes(nm.rest, n_items)
               dt == ReadData(sz.rest, sz.sizes)
               subs == [i \in 1..n_items |-> read_rtf_item(dt.items[i])]
               keys == DictKeys(nm.names)
           IN IF \E i \in 1..n_items : subs[i].kind = "raise" THEN RaiseVal
              ELSE DictVal(keys,
                           [k \in 1..Len(keys) |-> DictLast(nm.names, subs, keys[k])],
                           t.short \/ c.short \/ nm.short \/ sz.short \/ dt.short
                              \/ \E i \in 1..n_items : subs[i].short)
    ELSE [NoneVal EXCEPT !.short = t.short]

\* contents['TXT.rtf'] when contents is a dict holding that key
DictHas(contents, key) == \E k \in 1..Len(contents.names) : contents.names[k] = key

DictGet(contents, key) ==
    contents.vals[CHOOSE k \in 1..Len(contents.names) : contents.names[k] = key]

\* what extract_rtf_content_from_rtfd returns for the decoded top-level
\* record; returning nothing is returning None
TopLevelRtf(contents) ==
    IF contents.kind = "raise" THEN RaiseVal
    ELSE IF contents.kind = "dict"
    THEN IF DictHas(contents, TxtRtf) THEN DictGet(contents, TxtRtf)
         ELSE NoneVal
    ELSE NoneVal

\* extract_rtf_content_from_rtfd on a file holding `file`
extract_rtf_content_from_rtfd(file) ==
    IF Read(file, 4).bytes # RtfdMagic THEN NoneVal
    ELSE TopLevelRtf(read_rtf_item(Read(Read(file, 4).rest, 4).rest))

(***************************************************************************)
(* Composite documents given to the decoder: every document of a bounded   *)
(* family of record trees, written out in the wire format that             *)
(* read_rtf_item parses, and every prefix of such a document.              *)
(***************************************************************************)
Int32LE(n) ==
    <<n % 256, (n \div 256) % 256, (n \div 65536) % 256, (n \div 16777216) % 256>>

\* a leaf with pad = -1 is written with its plain size, a leaf with
\* pad >= 0 with the big-file marker, pad padding bytes and its real size;
\* content bytes are 'x', padding bytes are zero
LeafTree(n, p) ==
    [t |-> "leaf", tag |-> 1, content |-> Rep(120, n), pad |-> p,
     entries |-> <<>>]

UnknownTree == [t |-> "unk", tag |-> 2, content |-> <<>>, pad |-> -1, entries |-> <<>>]

DirTree(e) == [t |-> "dir", tag |-> 3, content |-> <<>>, pad |-> -1, entries |-> e]

LeafTrees == {LeafTree(n, p) : n \in 0..MaxLeaf, p \in -1..MaxPad}

InnerDirs == {DirTree(<<[name |-> TxtRtf, sub |-> LeafTree(1, -1)]>>)}

\* what the entry 'TXT.rtf' wraps, and what the other entries wrap
TxtSubTrees == LeafTrees \cup {UnknownTree} \cup InnerDirs

OtherSubTrees == {UnknownTree, LeafTree(1, 0)} \cup InnerDirs

\* 'TXT.rtf', 'a', 'b'
EntryNames == {TxtRtf, <<97>>, <<98>>}

DirEntries(n) ==
    {e \in [1..n -> [name : EntryNames, sub : TxtSubTrees \cup OtherSubTrees]] :
        /\ \A i, j \in 1..n : i # j => e[i].name # e[j].name
        /\ \A i \in 1..n : e[i].name # TxtRtf => e[i].sub \in OtherSubTrees}

TopTrees ==
    LeafTrees \cup {UnknownTree}
       \cup {DirTree(e) : e \in UNION {DirEntries(n) : n \in 0..MaxEntries}}

RECURSIVE ConcatAll(_)
ConcatAll(seqs) == IF seqs = <<>> THEN <<>> ELSE Head(seqs) \o ConcatAll(Tail(seqs))

RECURSIVE EncTree(_)
EncTree(tr) ==
    IF tr.t = "leaf" THEN
        IF tr.pad < 0
        THEN Int32LE(1) \o Int32LE(Len(tr.content)) \o tr.content
        ELSE Int32LE(1) \o <<0, 0, 0, 128>> \o Int32LE(tr.pad)
                \o Int32LE(Len(tr.content)) \o Rep(0, tr.pad) \o tr.content
    ELSE IF tr.t = "dir" THEN
        LET n == Len(tr.entries)
            enc == [i \in 1..n |-> EncTree(tr.entries[i].sub)]
        IN Int32LE(3) \o Int32LE(n)
              \o ConcatAll([i \in 1..n |->
                              Int32LE(Len(tr.entries[i].name)) \o tr.entries[i].name])
              \o ConcatAll([i \in 1..n |-> Int32LE(Len(enc[i]))])
              \o ConcatAll(enc)
    ELSE Int32LE(tr.tag)

\* the file: magic, a four-byte version field, one top-level record
RtfdFile(tr) == RtfdMagic \o <<0, 0, 0, 0>> \o EncTree(tr)

Pending == [kind |-> "pending", bytes |-> <<>>, names |-> <<>>, vals |-> <<>>,
            short |-> FALSE]

NoTree == [t |-> "none", tag |-> 0, content |-> <<>>, pad |-> -1, entries |-> <<>>]

(***************************************************************************)
(* The store on disk and the DataStore object.                             *)
(*                                                                         *)
(* An identifier is <<c, n>>: its first character c, which names its       *)
(* shard, and a serial n standing for the rest of the UUID text.           *)
(*   fs.plists : <<shard, stem>> -> metadata file  pages/shard/stem.plist  *)
(*   fs.files  : id -> bytes of the content file   pages/id[0]/id          *)
(* Only content files at shard-addressed paths are kept: no operation      *)
(* reads a content file anywhere else.                                     *)
(***************************************************************************)
HexDigits == {"0", "1", "2", "3", "4", "5", "6", "7", "8", "9",
              "a", "b", "c", "d", "e", "f"}

\* the shards that modelled identifiers fall into
Shards == {"a", "b"}

NoId == <<"", 0>>

Markdown == "net.daringfireball.markdown"

PageAlias == "com.fm.page-alias"

FileAlias == "com.fm.file-alias"

Utis == {Markdown, PageAlias, FileAlias}

\* 'Index'
IndexTitle == <<73, 110, 100, 101, 120>>

\* 'Write about Index here.'
IndexText == <<87, 114, 105, 116, 101, 32, 97, 98, 111, 117, 116, 32,
               73, 110, 100, 101, 120, 32, 104, 101, 114, 101, 46>>

SupportedVersion == 5

CreatedVersion == 6

\* hashlib.sha1 over bytes, as an injective image of its input
Sha1Hex(bytes) == [sha1 |-> bytes]

\* the digest taken over the code points instead of the UTF-8 bytes
sha1_hash_unencoded(s) == Sha1Hex(s)

sha1_hash(s) == Sha1Hex(Utf8Encode(s))

\* str.lower() on the letters A..Z
LowerText(name) ==
    [i \in 1..Len(name) |-> IF name[i] >= 65 /\ name[i] <= 90 THEN name[i] + 32
                            ELSE name[i]]

Put(f, k, v) == [x \in DOMAIN f \cup {k} |-> IF x = k THEN v ELSE f[x]]

EmptyMap == [x \in {} |-> NoId]

\* a metadata file whose markup does not parse (xml.parsers.expat.ExpatError)
BadPlist == [ok |-> FALSE, uuid |-> NoId, key |-> <<>>, displayName |-> <<>>,
             uti |-> "", dataHash |-> Sha1Hex(<<>>)]

ItemPlist(u, k, n, t, h) ==
    [ok |-> TRUE, uuid |-> u, key |-> k, displayName |-> n, uti |-> t, dataHash |-> h]

\* plistlib's writer refuses control characters in strings (ValueError) ...
HasControlChar(text) ==
    \E i \in 1..Len(text) : text[i] < 32 /\ text[i] \notin {9, 10, 13}

\* ... and writes "\r\n" and "\r" as "\n"
RECURSIVE PlistEscape(_)
PlistEscape(text) ==
    IF text = <<>> THEN <<>>
    ELSE IF Head(text) = 13
    THEN <<10>> \o PlistEscape(IF Len(text) >= 2 /\ text[2] = 10
                               THEN Drop(text, 2) ELSE Tail(text))
    ELSE <<Head(text)>> \o PlistEscape(Tail(text))

\* the file that save_plist leaves at the path: a record that loads back, or
\* the header alone (unparseable) when the writer raised part-way
PlistDump(pl) ==
    IF HasControlChar(pl.key) \/ HasControlChar(pl.displayName)
    THEN BadPlist
    ELSE ItemPlist(pl.uuid, PlistEscape(pl.key), PlistEscape(pl.displayName),
                   pl.uti, pl.dataHash)

NoInfo == [state |-> "absent", isEncrypted |-> FALSE, uuid |-> "",
           VoodooPadBundleVersion |-> 0]

BadInfo == [NoInfo EXCEPT !.state = "malformed"]

StoreInfo(enc, u, v) ==
    [state |-> "ok", isEncrypted |-> enc, uuid |-> u, VoodooPadBundleVersion |-> v]

NoProps == [state |-> "absent", uuid |-> "", expectedPageCount |-> 0,
            defaultPage |-> <<>>, defaultUUID |-> NoId]

BadProps == [NoProps EXCEPT !.state = "malformed"]

Props(u, page, id) ==
    [state |-> "ok", uuid |-> u, expectedPageCount |-> 0,
     defaultPage |-> page, defaultUUID |-> id]

NoStoreFs == [exists |-> FALSE, storeinfo |-> NoInfo, properties |-> NoProps,
              pages |-> FALSE, shards |-> {}, plists |-> EmptyMap,
              files |-> EmptyMap]

\* DataStore.__init__, and no DataStore at all (live = FALSE)
NewDs == [live |-> TRUE, storeinfo |-> NoInfo, properties |-> NoProps,
          items |-> EmptyMap, item_plists |-> EmptyMap]

NoDs == [NewDs EXCEPT !.live = FALSE]

Result(op, status, detail) ==
    [op |-> op, status |-> status, detail |-> detail, id |-> NoId, valid |-> FALSE]

NoRes == Result("none", "none", "")

(***************************************************************************)
(* add_item                                                                *)
(***************************************************************************)
\* add_item with the identifier uuid4 produced: the outcome, the disk and
\* the object afterwards.  save_plist creates the shard directory and the
\* file before the writer can raise.
add_item(f, d, item_uuid, name, text, format) ==
    LET item_key == LowerText(name)
        data_hash == sha1_hash(text)
        pl == ItemPlist(item_uuid, item_key, name, format, data_hash)
        slot == <<item_uuid[1], item_uuid>>
        f1 == [f EXCEPT !.shards = @ \cup {item_uuid[1]},
                        !.plists = Put(@, slot, PlistDump(pl))]
    IN IF ~PlistDump(pl).ok
       THEN [status |-> "ValueError", fs |-> f1, ds |-> d]
       ELSE [status |-> "ok",
             fs |-> [f1 EXCEPT !.files = Put(@, item_uuid, Utf8Encode(text))],
             ds |-> [d EXCEPT !.items = Put(@, item_uuid, text),
                              !.item_plists = Put(@, item_uuid, pl)]]

(***************************************************************************)
(* create                                                                  *)
(***************************************************************************)
create(f, store_uuid, index_uuid) ==
    IF f.exists THEN [status |-> "FileExistsError", fs |-> f, ds |-> NoDs]
    ELSE LET f0 == [NoStoreFs EXCEPT !.exists = TRUE, !.pages = TRUE,
                                     !.shards = HexDigits]
             info == StoreInfo(FALSE, store_uuid, CreatedVersion)
             d0 == [NewDs EXCEPT !.storeinfo = info,
                                 !.properties = Props(store_uuid, <<>>, NoId)]
             a == add_item(f0, d0, index_uuid, IndexTitle, IndexText, Markdown)
             props == Props(store_uuid, IndexTitle, index_uuid)
         IN [status |-> a.status,
             fs |-> [a.fs EXCEPT !.storeinfo = info, !.properties = props],
             ds |-> [a.ds EXCEPT !.properties = props]]

(***************************************************************************)
(* open                                                                    *)
(***************************************************************************)
\* get_plists: the metadata files in listing order.  os.listdir fixes no
\* order, but the files of one shard directory come out together.
Orders(f) ==
    LET S == DOMAIN f.plists
        n == Cardinality(S)
    IN {o \in [1..n -> S] :
          /\ \A i, j \in 1..n : i # j => o[i] # o[j]
          /\ \A i, j, k \in 1..n :
                (i < j /\ j < k /\ o[i][1] = o[k][1]) => o[j][1] = o[i][1]}

\* the first loop stopping at the first file that does not parse
RECURSIVE LoadPlistsStopping(_, _, _)
LoadPlistsStopping(f, order, table) ==
    IF order = <<>> THEN table
    ELSE LET item_plist_path == Head(order)
             item_uuid == item_plist_path[2]
             item_plist == f.plists[item_plist_path]
         IN IF ~item_plist.ok THEN table
            ELSE LoadPlistsStopping(f, Tail(order),
                    [keys |-> IF \E i \in 1..Len(table.keys) : table.keys[i] = item_uuid
                              THEN table.keys
                              ELSE Append(table.keys, item_uuid),
                     map |-> Put(table.map, item_uuid, item_plist)])

\* first loop of open: item_plists after reading the files in this order;
\* a file that raises ExpatError is skipped
RECURSIVE LoadPlists(_, _, _)
LoadPlists(f, order, table) ==
    IF order = <<>> THEN table
    ELSE LET item_plist_path == Head(order)
             item_uuid == item_plist_path[2]
             item_plist == f.plists[item_plist_path]
         IN LoadPlists(f, Tail(order),
                       IF item_plist.ok
                       THEN [keys |-> IF \E i \in 1..Len(table.keys) :
                                            table.keys[i] = item_uuid
                                      THEN table.keys
                                      ELSE Append(table.keys, item_uuid),
                             map |-> Put(table.map, item_uuid, item_plist)]
                       ELSE table)

\* load_file: the file's bytes, or what the RTFD extraction returns
load_file(file_content) ==
    IF Len(file_content) > 4 /\ Take(file_content, 4) = RtfdMagic
    THEN extract_rtf_content_from_rtfd(file_content)
    ELSE BytesVal(file_content, FALSE)

\* ds.load_file(item_path).decode('utf-8'): the text, or the exception
DecodedText(text) ==
    IF text.ok THEN [status |-> "ok", detail |-> "", text |-> text.text]
    ELSE [status |-> "UnicodeDecodeError", detail |-> "", text |-> <<>>]

ItemText(loaded) ==
    IF loaded.kind = "raise"
    THEN [status |-> "UnicodeDecodeError", detail |-> "", text |-> <<>>]
    ELSE IF loaded.kind # "bytes"
    THEN [status |-> "AttributeError", detail |-> "decode", text |-> <<>>]
    ELSE DecodedText(Utf8Decode(loaded.bytes))

\* second loop of open, over the keys of item_plists in dict order;
\* LoadItemsNext is the end of one pass: `got` is the item's text or the
\* exception its load raised
RECURSIVE LoadItems(_, _, _, _)
RECURSIVE LoadItemsNext(_, _, _, _, _)
LoadItems(f, item_plists, keys, items) ==
    IF keys = <<>> THEN [status |-> "ok", detail |-> "", items |-> items]
    ELSE IF item_plists[Head(keys)].uti = PageAlias
            \/ item_plists[Head(keys)].uti = FileAlias
    THEN LoadItems(f, item_plists, Tail(keys), items)
    ELSE IF Head(keys) \notin DOMAIN f.files
    THEN [status |-> "FileNotFoundError", detail |-> "item_path", items |-> items]
    ELSE LoadItemsNext(f, item_plists, keys, items,
                       ItemText(load_file(f.files[Head(keys)])))

LoadItemsNext(f, item_plists, keys, items, got) ==
    IF got.status # "ok"
    THEN [status |-> got.status, detail |-> got.detail, items |-> items]
    ELSE LoadItems(f, item_plists, Tail(keys), Put(items, Head(keys), got.text))

\* the store-level checks with the version tested before the encryption flag
OpenChecksVersionFirst(f) ==
    LET Fail(status, detail) == [status |-> status, detail |-> detail]
    IN
    IF ~f.exists \/ f.storeinfo.state = "absent"
    THEN Fail("FileNotFoundError", "storeinfo.plist")
    ELSE IF f.properties.state = "absent"
    THEN Fail("FileNotFoundError", "properties.plist")
    ELSE IF f.storeinfo.state # "ok"
    THEN Fail("ExpatError", "storeinfo.plist")
    ELSE IF f.storeinfo.VoodooPadBundleVersion # SupportedVersion
    THEN Fail("Exception", "Unsupported")
    ELSE IF f.storeinfo.isEncrypted
    THEN Fail("Exception", "Encrypted documents are not supported")
    ELSE IF f.properties.state # "ok"
    THEN Fail("ExpatError", "properties.plist")
    ELSE IF ~f.pages
    THEN Fail("FileNotFoundError", "properties.plist")
    ELSE Fail("ok", "")

\* the store-level part of open, up to the pages directory check: "ok", or
\* the exception raised and what it names
OpenChecks(f) ==
    LET Fail(status, detail) == [status |-> status, detail |-> detail]
    IN
    IF ~f.exists \/ f.storeinfo.state = "absent"
    THEN Fail("FileNotFoundError", "storeinfo.plist")
    ELSE IF f.properties.state = "absent"
    THEN Fail("FileNotFoundError", "properties.plist")
    ELSE IF f.storeinfo.state # "ok"
    THEN Fail("ExpatError", "storeinfo.plist")
    ELSE IF f.storeinfo.isEncrypted
    THEN Fail("Exception", "Encrypted documents are not supported")
    ELSE IF f.storeinfo.VoodooPadBundleVersion # SupportedVersion
    THEN Fail("Exception", "Unsupported")
    ELSE IF f.properties.state # "ok"
    THEN Fail("ExpatError", "properties.plist")
    ELSE IF ~f.pages
    THEN Fail("FileNotFoundError", "properties.plist")
    ELSE Fail("ok", "")

\* the end of open: the exception of the second loop, or the DataStore
OpenReturn(f, table, load) ==
    IF load.status # "ok"
    THEN [status |-> load.status, detail |-> load.detail, ds |-> NoDs]
    ELSE [status |-> "ok", detail |-> "",
          ds |-> [live |-> TRUE, storeinfo |-> f.storeinfo,
                  properties |-> f.properties,
                  items |-> load.items, item_plists |-> table.map]]

\* open from the second loop on, item_plists being filled
OpenItems(f, table) ==
    OpenReturn(f, table, LoadItems(f, table.map, table.keys, EmptyMap))

\* open: status "ok" with the DataStore returned, or the exception raised
open(f, order) ==
    IF OpenChecks(f).status # "ok"
    THEN [status |-> OpenChecks(f).status, detail |-> OpenChecks(f).detail,
          ds |-> NoDs]
    ELSE OpenItems(f, LoadPlists(f, order, [keys |-> <<>>, map |-> EmptyMap]))

(***************************************************************************)
(* validate                                                                *)
(***************************************************************************)
\* the loop of validate over item_uuids(), valid being its running flag
RECURSIVE ValidateLoop(_, _, _)
ValidateLoop(item_plists, todo, valid) ==
    IF todo = {} THEN valid
    ELSE LET item_uuid == CHOOSE u \in todo : TRUE
             item_plist == item_plists[item_uuid]
         IN ValidateLoop(item_plists, todo \ {item_uuid},
                         IF item_uuid # item_plist.uuid THEN FALSE ELSE valid)

\* validate returning at the first item it looks at
validate_first_only(d) ==
    IF DOMAIN d.item_plists = {} THEN TRUE
    ELSE LET item_uuid == CHOOSE u \in DOMAIN d.item_plists : TRUE
         IN item_uuid = d.item_plists[item_uuid].uuid

validate(d) == ValidateLoop(d.item_plists, DOMAIN d.item_plists, TRUE)

(***************************************************************************)
(* Stores found on disk.                                                   *)
(***************************************************************************)
\* identifiers of the items of a store found on disk
StoreIds == {<<c, 1>> : c \in Shards}

DiskPlists ==
    {BadPlist} \cup
    {ItemPlist(u, LowerText(IndexTitle), IndexTitle, t, sha1_hash(IndexText)) :
        u \in StoreIds, t \in Utis}

PlistDirs(max) ==
    UNION {[S -> DiskPlists] :
             S \in {T \in SUBSET (Shards \X StoreIds) : Cardinality(T) <= max}}

\* 'hi'
PlainHi == <<104, 105>>

\* not UTF-8
NonUtf8 == <<255>>

RtfdGood ==
    RtfdFile(DirTree(<<[name |-> <<97>>, sub |-> UnknownTree],
                       [name |-> TxtRtf, sub |-> LeafTree(1, 1)]>>))

RtfdNoTxt == RtfdFile(DirTree(<<[name |-> <<97>>, sub |-> LeafTree(1, -1)]>>))

RtfdTopLeaf == RtfdFile(LeafTree(1, -1))

RtfdUnknownTag == RtfdFile(UnknownTree)

Contents == {PlainHi, NonUtf8, RtfdGood, RtfdNoTxt, RtfdTopLeaf, RtfdUnknownTag}

ContentDirs(C) == UNION {[S -> C] : S \in SUBSET StoreIds}

InfoFiles ==
    {NoInfo, BadInfo}
       \cup {StoreInfo(e, "s1", v) : e \in BOOLEAN, v \in {SupportedVersion, CreatedVersion}}

PropFiles == {NoProps, BadProps, Props("s1", IndexTitle, <<"a", 1>>)}

LevelOk(i, p, pg) ==
    /\ i.state = "ok" /\ ~i.isEncrypted /\ i.VoodooPadBundleVersion = SupportedVersion
    /\ p.state = "ok"
    /\ pg

DiskStore(i, p, pg, pl, fl) ==
    [exists |-> TRUE, storeinfo |-> i, properties |-> p, pages |-> pg,
     shards |-> IF pg THEN HexDigits ELSE {}, plists |-> pl, files |-> fl]

\* stores that pass the store-level checks, with any pages directory within
\* the bounds
SoundStores ==
    {DiskStore(StoreInfo(FALSE, "s1", SupportedVersion),
               Props("s1", IndexTitle, <<"a", 1>>), TRUE, pl, fl) :
        pl \in PlistDirs(MaxPlists), fl \in ContentDirs(Contents)}

\* stores that fail a store-level check; the pages directory, when there
\* is one, holds at most one metadata file
UnsoundStores ==
    {DiskStore(i, p, TRUE, pl, fl) :
        i \in InfoFiles, p \in PropFiles,
        pl \in PlistDirs(1), fl \in ContentDirs({PlainHi})}
    \cup {DiskStore(i, p, FALSE, EmptyMap, EmptyMap) : i \in InfoFiles, p \in PropFiles}

Stores == SoundStores \cup (UnsoundStores \ {s \in UnsoundStores :
                                LevelOk(s.storeinfo, s.properties, s.pages)})

(***************************************************************************)
(* Actions.                                                                *)
(***************************************************************************)
RtfIdle ==
    /\ rtfTree = NoTree /\ rtfData = <<>> /\ rtfItem = Pending /\ rtfOut = Pending

\* DataStore.open(path)
Open ==
    /\ rtfTree = NoTree
    /\ \E order \in Orders(fs) : \E r \in {open(fs, order)} :
          /\ res' = Result("open", r.status, r.detail)
          /\ ds' = IF r.status = "ok" THEN r.ds ELSE ds
    /\ UNCHANGED <<fs, added, rtfTree, rtfData, rtfItem, rtfOut>>

\* ds.validate()
Validate ==
    /\ rtfTree = NoTree
    /\ ds.live
    /\ res' = [Result("validate", "ok", "") EXCEPT !.valid = validate(ds)]
    /\ UNCHANGED <<fs, ds, added, rtfTree, rtfData, rtfItem, rtfOut>>

Init ==
    /\ fs \in Stores
    /\ ds = NoDs
    /\ res = NoRes
    /\ added = EmptyMap
    /\ RtfIdle

Next == Open \/ Validate

Spec == Init /\ [][Next]_vars

(***************************************************************************)
(* The life of one store: created at a path that did not exist, then       *)
(* filled through add_item, reopened and validated.                        *)
(***************************************************************************)
\* what uuid4 can produce for an item, and for a store
Uuids == {<<c, n>> : c \in Shards, n \in 1..2}

StoreUuids == {"s1", "s2"}

\* 'Ab', 'A\r', '\x01'
Names == {<<65, 98>>, <<65, 13>>, <<1>>}

\* 'h', U+00E9
Texts == {<<104>>, <<233>>}

Formats == {Markdown, PageAlias}

Fresh(f, d) ==
    {u \in Uuids : /\ u \notin DOMAIN d.item_plists
                   /\ u \notin DOMAIN f.files
                   /\ \A slot \in DOMAIN f.plists : slot[2] # u}

\* DataStore.create(path)
Create ==
    /\ rtfTree = NoTree
    /\ \E store_uuid \in StoreUuids, index_uuid \in Fresh(fs, NewDs) :
       \E r \in {create(fs, store_uuid, index_uuid)} :
          /\ fs' = r.fs
          /\ ds' = IF r.status = "ok" THEN r.ds ELSE ds
          /\ res' = [Result("create", r.status, "") EXCEPT
                        !.id = IF r.status = "ok" THEN index_uuid ELSE NoId]
          /\ added' = IF r.status = "ok"
                      THEN Put(added, index_uuid,
                               [name |-> IndexTitle, text |-> IndexText,
                                format |-> Markdown])
                      ELSE added
    /\ UNCHANGED <<rtfTree, rtfData, rtfItem, rtfOut>>

\* ds.add_item(name, text, format)
AddItem ==
    /\ rtfTree = NoTree
    /\ ds.live
    /\ Cardinality(DOMAIN fs.plists) < MaxItems
    /\ \E item_uuid \in Fresh(fs, ds), name \in Names, text \in Texts,
          format \in Formats :
       \E r \in {add_item(fs, ds, item_uuid, name, text, format)} :
          /\ fs' = r.fs
          /\ ds' = r.ds
          /\ res' = [Result("add_item", r.status, "") EXCEPT
                        !.id = IF r.status = "ok" THEN item_uuid ELSE NoId]
          /\ added' = IF r.status = "ok"
                      THEN Put(added, item_uuid,
                               [name |-> name, text |-> text, format |-> format])
                      ELSE added
    /\ UNCHANGED <<rtfTree, rtfData, rtfItem, rtfOut>>

InitLife ==
    /\ fs = NoStoreFs
    /\ ds = NoDs
    /\ res = NoRes
    /\ added = EmptyMap
    /\ RtfIdle

NextLife == Create \/ AddItem \/ Open \/ Validate

SpecLife == InitLife /\ [][NextLife]_vars

(***************************************************************************)
(* The decoder's specification: a document is drawn, then decoded.         *)
(***************************************************************************)
InitRtf ==
    /\ rtfTree \in TopTrees
    /\ \E cut \in 0..Len(RtfdFile(rtfTree)) : rtfData = Take(RtfdFile(rtfTree), cut)
    /\ rtfItem = Pending
    /\ rtfOut = Pending
    /\ fs = NoStoreFs
    /\ ds = NoDs
    /\ res = NoRes
    /\ added = EmptyMap

\* read_rtf_item on the stream positioned after magic and version
Decode ==
    /\ rtfTree # NoTree
    /\ rtfItem = Pending
    /\ rtfItem' = read_rtf_item(Drop(rtfData, 8))
    /\ UNCHANGED <<fs, ds, res, added, rtfTree, rtfData, rtfOut>>

Extract ==
    /\ rtfTree # NoTree
    /\ rtfOut = Pending
    /\ rtfOut' = extract_rtf_content_from_rtfd(rtfData)
    /\ UNCHANGED <<fs, ds, res, added, rtfTree, rtfData, rtfItem>>

NextRtf == Decode \/ Extract

SpecRtf == InitRtf /\ [][NextRtf]_vars

Untruncated == rtfData = RtfdFile(rtfTree)

HasTxtLeaf(tr) ==
    /\ tr.t = "dir"
    /\ \E i \in 1..Len(tr.entries) :
          tr.entries[i].name = TxtRtf /\ tr.entries[i].sub.t = "leaf"

TxtLeaf(tr) ==
    tr.entries[CHOOSE i \in 1..Len(tr.entries) : tr.entries[i].name = TxtRtf].sub

\* C10: for an untruncated document whose top-level record is a directory
\* with distinct names, one of them 'TXT.rtf' wrapping a leaf, top-level
\* extraction returns exactly the leaf's content bytes, padding excluded.
C10_ExtractReturnsTxtLeaf ==
    (rtfOut # Pending /\ Untruncated /\ HasTxtLeaf(rtfTree))
        => (rtfOut.kind = "bytes" /\ rtfOut.bytes = TxtLeaf(rtfTree).content)

C10_Witness ==
    /\ rtfOut # Pending /\ Untruncated /\ HasTxtLeaf(rtfTree)
    /\ TxtLeaf(rtfTree).pad >= 1
    /\ Len(TxtLeaf(rtfTree).content) >= 1
    /\ Len(rtfTree.entries) >= 2
    /\ rtfTree.entries[1].name # TxtRtf
    /\ rtfOut.bytes = TxtLeaf(rtfTree).content

\* C4: every read in read_rtf_item that asks for more bytes than remain
\* ends the decode with a hard Truncated failure (no leaf, directory or
\* absent value is returned from short reads).
C4_ShortReadIsTruncatedFailure ==
    (rtfItem # Pending /\ rtfItem.short) => rtfItem.kind = "truncated"

(***************************************************************************)
(* Properties of create, open, validate and add_item.                      *)
(***************************************************************************)
IsAlias(pl) == pl.uti \in {PageAlias, FileAlias}

\* the metadata files that parse, their stems, and the records of a stem
Parsed(f) == {slot \in DOMAIN f.plists : f.plists[slot].ok}

ParsedStems(f) == {slot[2] : slot \in Parsed(f)}

RecordsFor(f, k) == {f.plists[slot] : slot \in {t \in Parsed(f) : t[2] = k}}

NoDupStems(f) ==
    \A s1, s2 \in DOMAIN f.plists : s1[2] = s2[2] => s1 = s2

PassesStoreChecks(f) == f.exists /\ LevelOk(f.storeinfo, f.properties, f.pages)

\* content that loads as text / composite content without a rich-text stream
TextContents == {PlainHi, RtfdGood}

NoTextComposites == {RtfdNoTxt, RtfdTopLeaf, RtfdUnknownTag}

HasContentIn(f, slot, C) ==
    /\ ~IsAlias(f.plists[slot])
    /\ slot[2] \in DOMAIN f.files
    /\ f.files[slot[2]] \in C

AllLoadable(f) ==
    \A slot \in Parsed(f) : IsAlias(f.plists[slot]) \/ HasContentIn(f, slot, TextContents)

\* C1: a store produced by create opens without error and validates.
C1_CreatedStoreOpensAndValidates ==
    fs.exists => /\ (res.op = "open" => res.status = "ok")
                 /\ (res.op = "validate" => res.valid)

\* C2: on a store that passes the store-level checks and holds an item
\* whose composite content yields no rich-text stream (all other items
\* loading), open returns a Store, that item has empty or absent content
\* and every other item is loaded.
C2_CompositeFailureNeverAborts ==
    (/\ res.op = "open"
     /\ PassesStoreChecks(fs)
     /\ NoDupStems(fs)
     /\ \E slot \in Parsed(fs) : HasContentIn(fs, slot, NoTextComposites)
     /\ \A slot \in Parsed(fs) :
           IsAlias(fs.plists[slot])
              \/ HasContentIn(fs, slot, TextContents \cup NoTextComposites))
    => /\ res.status = "ok"
       /\ \A slot \in Parsed(fs) :
             IF HasContentIn(fs, slot, NoTextComposites)
             THEN slot[2] \in DOMAIN ds.items => ds.items[slot[2]] = <<>>
             ELSE IsAlias(fs.plists[slot]) \/ slot[2] \in DOMAIN ds.items

\* a parseable record kept in a shard other than its embedded identifier's
Misplaced(f) == \E slot \in Parsed(f) : f.plists[slot].uuid[1] # slot[1]

\* C3: a store holding a parseable record in a shard that differs from the
\* first character of its embedded identifier is enumerated by open without
\* raising, and validate returns false.
C3_MisplacedRecordFlagged ==
    (PassesStoreChecks(fs) /\ AllLoadable(fs) /\ Misplaced(fs))
    => /\ (res.op = "open" => res.status = "ok")
       /\ (res.op = "validate" => ~res.valid)

FirstFalse(checks) ==
    IF \A i \in 1..Len(checks) : checks[i] THEN 0
    ELSE CHOOSE i \in 1..Len(checks) : ~checks[i] /\ \A j \in 1..(i - 1) : checks[j]

\* the five store-level preconditions of open, in the claimed order
FiveChecks(f) ==
    <<f.exists /\ f.storeinfo.state # "absent",
      f.properties.state # "absent",
      ~f.storeinfo.isEncrypted,
      f.storeinfo.VoodooPadBundleVersion = SupportedVersion,
      f.pages>>

FiveFailures ==
    <<<<"FileNotFoundError", {"storeinfo.plist"}>>,
      <<"FileNotFoundError", {"properties.plist"}>>,
      <<"Exception", {"Encrypted documents are not supported"}>>,
      <<"Exception", {"Unsupported"}>>,
      <<"FileNotFoundError", {"pages", "properties.plist"}>>>>

NothingLoaded == ~ds.live /\ ds.items = EmptyMap /\ ds.item_plists = EmptyMap

\* C5 as stated: the failure of open is that of the first of the five
\* checks that fails, and then nothing is returned or loaded.
C5_FirstFailingOfFiveChecks ==
    (res.op = "open" /\ fs.storeinfo.state # "malformed"
       /\ FirstFalse(FiveChecks(fs)) # 0)
    => LET e == FiveFailures[FirstFalse(FiveChecks(fs))] IN
       /\ res.status = e[1]
       /\ res.detail \in e[2]
       /\ NothingLoaded

\* the same order with the two parses where open performs them
SevenChecks(f) ==
    <<f.exists /\ f.storeinfo.state # "absent",
      f.properties.state # "absent",
      f.storeinfo.state = "ok",
      ~f.storeinfo.isEncrypted,
      f.storeinfo.VoodooPadBundleVersion = SupportedVersion,
      f.properties.state = "ok",
      f.pages>>

SevenFailures ==
    <<FiveFailures[1], FiveFailures[2],
      <<"ExpatError", {"storeinfo.plist"}>>,
      FiveFailures[3], FiveFailures[4],
      <<"ExpatError", {"properties.plist"}>>,
      FiveFailures[5]>>

\* C5 (amended): open checks, in order, storeinfo exists, properties
\* exists, storeinfo parses, isEncrypted is false, the version is the
\* supported one, properties parses, pages is a directory; the failure is
\* that of the first check that fails, and then nothing is returned or
\* loaded.
C5_FirstFailingCheckWithParses ==
    (res.op = "open" /\ FirstFalse(SevenChecks(fs)) # 0)
    => LET e == SevenFailures[FirstFalse(SevenChecks(fs))] IN
       /\ res.status = e[1]
       /\ res.detail \in e[2]
       /\ NothingLoaded

C5_Witness ==
    /\ res.op = "open"
    /\ FirstFalse(SevenChecks(fs)) = 4
    /\ fs.storeinfo.VoodooPadBundleVersion # SupportedVersion
    /\ res.status = "Exception"
    /\ res.detail = "Encrypted documents are not supported"
    /\ DOMAIN fs.plists # {}

\* the store without its unparseable metadata files
WithoutUnparseable(f) ==
    [f EXCEPT !.plists = [slot \in Parsed(f) |-> f.plists[slot]]]

C7_ContentFilesRequired ==
    (res.op = "open" /\ PassesStoreChecks(fs) /\ NoDupStems(fs))
    => /\ (\E slot \in Parsed(fs) :
              ~IsAlias(fs.plists[slot]) /\ slot[2] \notin DOMAIN fs.files)
          => res.status = "FileNotFoundError"
       /\ res.status = "ok" =>
             /\ \A slot \in Parsed(fs) :
                   IsAlias(fs.plists[slot]) \/ slot[2] \in DOMAIN fs.files
             /\ DOMAIN ds.item_plists = ParsedStems(fs)
             /\ DOMAIN ds.items =
                   {k \in DOMAIN ds.item_plists : ~IsAlias(ds.item_plists[k])}

\* C8: every item added so far has, on disk at pages/{id[0]}/{id}.plist, a
\* record with uuid = id and dataHash = SHA-1 of the UTF-8 text, at
\* pages/{id[0]}/{id} the UTF-8 bytes of the text, and both mirrored in
\* the in-memory tables under id.
C8_AddedItemsOnDiskAndInMemory ==
    \A id \in DOMAIN added :
       LET slot == <<id[1], id>>
           bytes == Utf8Encode(added[id].text)
       IN /\ slot \in DOMAIN fs.plists
          /\ fs.plists[slot].ok
          /\ fs.plists[slot].uuid = id
          /\ fs.plists[slot].dataHash = Sha1Hex(bytes)
          /\ id \in DOMAIN fs.files
          /\ fs.files[id] = bytes
          /\ id \in DOMAIN ds.items
          /\ ds.items[id] = added[id].text
          /\ id \in DOMAIN ds.item_plists
          /\ ds.item_plists[id].uuid = id
          /\ ds.item_plists[id].dataHash = Sha1Hex(bytes)

C8_Witness ==
    /\ res.op = "add_item" /\ res.status = "ok"
    /\ Cardinality(DOMAIN added) >= 3
    /\ added[res.id].text = <<233>>
    /\ fs.files[res.id] = <<195, 169>>
    /\ \E id \in DOMAIN added : id[1] # res.id[1]

\* C9: validate returns true exactly when every key of the metadata table
\* equals its record's embedded uuid, and a validate step leaves the
\* tables, the properties, the storeinfo and the disk as they were.
C9_ValidateChecksEveryKey ==
    /\ [](res.op = "validate" =>
            (res.status = "ok"
             /\ res.valid = (\A k \in DOMAIN ds.item_plists : ds.item_plists[k].uuid = k)))
    /\ [][res'.op = "validate" => (ds' = ds /\ fs' = fs)]_vars

C9_Witness ==
    /\ res.op = "validate" /\ ~res.valid
    /\ \E k \in DOMAIN ds.item_plists : ds.item_plists[k].uuid = k
    /\ \E k \in DOMAIN ds.item_plists : ds.item_plists[k].uuid # k

====
